---- MODULE Spec2Model ----
(***************************************************************************)
(* Model of remove_peers_by_port.py: one reconciliation pass of main().     *)
(* Every external call (which, aba peer -c/-r/-a, dig) is a step whose      *)
(* outcome (exit status, output text) is drawn from a small set.            *)
(***************************************************************************)
EXTENDS Integers, Sequences, FiniteSets, TLC

\* ------------------------------------------------------------------ bounds
\* longest output of "aba peer -c full_node", in lines
MaxLines == 4
\* longest output of one "dig <introducer> +short", in lines
MaxDigLines == 2

\* ------------------------------------------------------- values of the model
\* An IP literal is the tuple of its dotted fields; the empty tuple is the
\* empty line that split('\n') yields.
IpA == <<1, 2, 3, 4>>
IpB == <<5, 6, 7, 8>>
IpBad == <<9, 9, 9, 999>>
EmptyLine == << >>

\* argparse defaults of --remove-port and --replace-port
DefaultRemovePort == 8444
DefaultReplacePort == 8644
Ports == {DefaultRemovePort, DefaultReplacePort}

INTRODUCERS ==
  <<"dns-introducer.abacoin.net", "dns-introducer.aba-project.io",
    "dns-introducer.aba.ooo", "dns-introducer.abacoin.io">>

Commands == {"aba", "dig"}

\* exit statuses of a subprocess
ExitCodes == {0, 1}

\* Lines of the peer table. A line is its fields; text is a line of another shape.
Row(role, ip, port, id) == [role |-> role, ip |-> ip, port |-> port, node_id |-> id]
HexIds == {"ab12cd34", "0f0f0f0f", "12345678"}
TableLines ==
  { Row("Connections:", EmptyLine, 0, ""),
    Row("WALLET", IpB, DefaultRemovePort, "ab12cd34"),
    Row("FULL_NODE", IpA, DefaultRemovePort, "ab12cd34"),
    Row("FULL_NODE", IpB, DefaultRemovePort, "0f0f0f0f"),
    Row("FULL_NODE", IpA, DefaultReplacePort, "12345678"),
    Row("FULL_NODE", IpB, DefaultRemovePort, "XYZ") }

\* Lines a dig +short prints
DigLines == {EmptyLine, IpA, IpB, IpBad}

\* Standard output of aba peer -r / -a, as its words
Stdouts ==
  { <<"Peer", "Disconnected">>, <<"FAILED", "to", "connect">>,
    <<"failed", "disconnected">>, <<"ok">> }

SeqsUpTo(S, n) == UNION {[1..k -> S] : k \in 0..n}
Range(q) == {q[i] : i \in DOMAIN q}

VARIABLES
  installed,       \* commands shutil.which finds
  dry_run, replace, remove_port, replace_port,   \* args
  pc,              \* position in main
  connections,     \* main: connections (the snapshot)
  dig_idx,         \* dig_new_peers: position in INTRODUCERS
  dig_connections, \* dig_new_peers: the local set connections
  dig_excluded,    \* history: check_existing_aba_peer rejected some line
  dig_repeated,    \* history: some line was added to the set when already in it
  new_peers,       \* main: new_peers (the candidate pool)
  pool0,           \* history: the list dig_new_peers returned
  pool_alt,        \* TwoPassSpec: the list a second pass gets from the same dig results
  idx,             \* main: position of the for loop in connections
  found_count, removed_count, replaced_count,
  new_peer,        \* main: new_peer
  popped,          \* history: results of new_peers.pop(0), in order
  log,             \* history: the external commands run, in order
  last_call,       \* history: exit status and output of the latest command
  report,          \* the latest per-connection message printed
  summary,         \* the summary printed
  exit_status      \* exit status of the process, -1 while running

vars == <<installed, dry_run, replace, remove_port, replace_port, pc, connections,
          dig_idx, dig_connections, dig_excluded, dig_repeated, new_peers, pool0, pool_alt, idx,
          found_count, removed_count, replaced_count, new_peer, popped, log,
          last_call, report, summary, exit_status>>

args == <<installed, dry_run, replace, remove_port, replace_port>>

\* --------------------------------------------------------- pure functions

\* str.lower() on one word
Lower(w) ==
  CASE w = "Disconnected" -> "disconnected"
    [] w = "FAILED" -> "failed"
    [] w = "Peer" -> "peer"
    [] OTHER -> w

\* marker in stdout.lower(), for a one-word marker
ContainsLower(out, marker) == \E i \in DOMAIN out : Lower(out[i]) = marker

\* passes as soon as one of the commands is found
check_commands_any(inst) == \E cmd \in Commands : cmd \in inst

\* check_commands: TRUE when it returns, FALSE when it calls exit(1)
check_commands(inst) == \A cmd \in Commands : cmd \in inst

\* the re.match of get_peer_connections
RowMatches(line) ==
  /\ line.role = "FULL_NODE"
  /\ Len(line.ip) = 4
  /\ line.node_id \in HexIds

Connection(line) == [node_id |-> line.node_id, ip |-> line.ip, port |-> line.port]

RECURSIVE ParseRows(_)
ParseRows(lines) ==
  IF lines = << >> THEN << >>
  ELSE IF RowMatches(Head(lines))
       THEN <<Connection(Head(lines))>> \o ParseRows(Tail(lines))
       ELSE ParseRows(Tail(lines))

\* lines[1:]
SkipHeaderOne(lines) == SubSeq(lines, 2, Len(lines))

\* lines[2:]
SkipHeader(lines) == SubSeq(lines, 3, Len(lines))

get_peer_connections(rc, lines) ==
  IF rc # 0 THEN << >> ELSE ParseRows(SkipHeader(lines))

\* the port test inverted
check_existing_other_port(new_ip, conns, new_port) ==
  \E i \in DOMAIN conns : conns[i].port # new_port /\ conns[i].ip = new_ip

check_existing_aba_peer(new_ip, conns, new_port) ==
  \E i \in DOMAIN conns : conns[i].port = new_port /\ conns[i].ip = new_ip

\* the lines of one dig output that dig_new_peers adds to its set
EligibleLines(lines, conns, port) ==
  { lines[i] : i \in { j \in DOMAIN lines :
       lines[j] # EmptyLine /\ ~check_existing_aba_peer(lines[j], conns, port) } }

RejectedLines(lines, conns, port) ==
  { lines[i] : i \in { j \in DOMAIN lines :
       lines[j] # EmptyLine /\ check_existing_aba_peer(lines[j], conns, port) } }

\* list(connections): a set listed in an order the hash seed picks
ListOf(S) ==
  { q \in [1..Cardinality(S) -> S] : \A i, j \in 1..Cardinality(S) : i # j => q[i] # q[j] }

\* the exit status is not looked at
remove_connection_marker_only(rc, out) == ContainsLower(out, "disconnected")

\* the marker is looked for without lower()
remove_connection_case_sensitive(rc, out) ==
  rc = 0 /\ \E i \in DOMAIN out : out[i] = "disconnected"

\* trusts the exit status alone
remove_connection_exit_only(rc, out) == rc = 0

remove_connection(rc, out) == rc = 0 /\ ContainsLower(out, "disconnected")

is_valid_ip(ip) == Len(ip) = 4 /\ \A i \in 1..4 : ip[i] \in 0..255

\* the marker is looked for without lower()
add_peer_case_sensitive(ip, rc, out) ==
  is_valid_ip(ip) /\ rc = 0 /\ ~\E i \in DOMAIN out : out[i] = "failed"

add_peer(ip, rc, out) == is_valid_ip(ip) /\ rc = 0 /\ ~ContainsLower(out, "failed")

\* every connection is taken as a match
IsRemoveTargetAny(conn) == TRUE

\* the connection is tested against the replace port
IsRemoveTargetReplacePort(conn) == conn.port = replace_port

\* port == args.remove_port
IsRemoveTarget(conn) == conn.port = remove_port

\* the dry-run flag is ignored
TakesDryRunBranchNever == FALSE

\* if args.dry_run
TakesDryRunBranch == dry_run

\* the replace flag is ignored
WantsReplacementNoFlag(q) == q # << >>

\* args.replace and new_peers
WantsReplacement(q) == replace /\ q # << >>

\* no retry after a failed add
ShouldRetryNever(q, success) == FALSE

\* the retry goes on after a successful add
ShouldRetryAlways(q, success) == q # << >>

\* the while condition: new_peers and not success
ShouldRetry(q, success) == q # << >> /\ ~success

\* new_peers[0] read without removing it
PopFrontPeek(q) == q

\* the popped candidate is put back at the end
PopFrontRequeue(q) == Append(Tail(q), Head(q))

\* new_peers after new_peers.pop(0)
PopFront(q) == Tail(q)

\* the zero-match case is not told apart
summary_kind_no_zero(found, dry) == IF dry THEN "dry_run" ELSE "live"

\* lines 176-184: which summary is printed
summary_kind(found, dry) ==
  IF found = 0 THEN "no_connections" ELSE IF dry THEN "dry_run" ELSE "live"

Call(cmd, host, id, ip, ok) ==
  [cmd |-> cmd, host |-> host, node_id |-> id, ip |-> ip, ok |-> ok]

Outcome(cmd, rc, out) == [cmd |-> cmd, rc |-> rc, out |-> out]

\* ------------------------------------------------------------------- Init
Init ==
  /\ installed \in SUBSET Commands
  /\ dry_run \in BOOLEAN
  /\ replace \in BOOLEAN
  /\ remove_port \in Ports
  /\ replace_port \in Ports
  /\ pc = "start"
  /\ connections = << >>
  /\ dig_idx = 1
  /\ dig_connections = {}
  /\ dig_excluded = FALSE
  /\ dig_repeated = FALSE
  /\ new_peers = << >>
  /\ pool0 = << >>
  /\ pool_alt = << >>
  /\ idx = 1
  /\ found_count = 0
  /\ removed_count = 0
  /\ replaced_count = 0
  /\ new_peer = EmptyLine
  /\ popped = << >>
  /\ log = << >>
  /\ last_call = Outcome("none", 0, << >>)
  /\ report = "none"
  /\ summary = "none"
  /\ exit_status = -1

\* ---------------------------------------------------------------- actions

\* main line 122: check_commands()
CheckCommands ==
  /\ pc = "start"
  /\ IF check_commands(installed)
     THEN pc' = "list" /\ exit_status' = exit_status
     ELSE pc' = "aborted" /\ exit_status' = 1
  /\ UNCHANGED <<args, connections, dig_idx, dig_connections, dig_excluded, dig_repeated,
                 new_peers, pool0, pool_alt, idx, found_count, removed_count,
                 replaced_count, new_peer, popped, log, last_call, report, summary>>

\* main line 135: connections = get_peer_connections()
ListPeers ==
  /\ pc = "list"
  /\ \E rc \in ExitCodes, lines \in SeqsUpTo(TableLines, MaxLines) :
       /\ rc # 0 => lines = << >>   \* the output of a failed call is not read
       /\ connections' = get_peer_connections(rc, lines)
       /\ log' = Append(log, Call("list", "", "", EmptyLine, rc = 0))
       /\ last_call' = Outcome("list", rc, << >>)
  /\ pc' = "dig"
  /\ UNCHANGED <<args, dig_idx, dig_connections, dig_excluded, dig_repeated, new_peers, pool0, pool_alt,
                 idx, found_count, removed_count, replaced_count, new_peer,
                 popped, report, summary, exit_status>>

\* main line 138, one turn of the loop of dig_new_peers; the last turn returns
DigStep(second_pass) ==
  /\ pc = "dig"
  /\ \E rc \in ExitCodes, lines \in SeqsUpTo(DigLines, MaxDigLines) :
       /\ rc # 0 => lines = << >>   \* the output of a failed call is not read
       /\ log' = Append(log, Call("dig", INTRODUCERS[dig_idx], "", EmptyLine, rc = 0))
       /\ last_call' = Outcome("dig", rc, << >>)
       /\ IF rc # 0
          THEN \* CalledProcessError: return []
               /\ new_peers' = << >>
               /\ pool0' = << >>
               /\ pool_alt' = << >>
               /\ pc' = "loop"
               /\ UNCHANGED <<dig_idx, dig_connections, dig_excluded, dig_repeated>>
          ELSE /\ dig_connections' =
                    dig_connections \cup EligibleLines(lines, connections, replace_port)
               /\ dig_excluded' =
                    (dig_excluded \/ RejectedLines(lines, connections, replace_port) # {})
               /\ dig_repeated' =
                    (dig_repeated \/
                      dig_connections \cap EligibleLines(lines, connections, replace_port) # {})
               /\ IF dig_idx < Len(INTRODUCERS)
                  THEN /\ dig_idx' = dig_idx + 1
                       /\ pc' = "dig"
                       /\ UNCHANGED <<new_peers, pool0, pool_alt>>
                  ELSE /\ \E q \in ListOf(dig_connections') :
                            new_peers' = q /\ pool0' = q
                       /\ pool_alt' \in IF second_pass THEN ListOf(dig_connections')
                                                       ELSE {<< >>}
                       /\ pc' = "loop"
                       /\ UNCHANGED dig_idx
  /\ UNCHANGED <<args, connections, idx, found_count, removed_count,
                 replaced_count, new_peer, popped, report, summary, exit_status>>

DigIntroducer == DigStep(FALSE)

\* the same turn, with the list a second pass gets from the same results
DigIntroducerTwice == DigStep(TRUE)

\* lines 145-146: a connection on another port
SkipConn ==
  /\ pc = "loop"
  /\ idx <= Len(connections)
  /\ ~IsRemoveTarget(connections[idx])
  /\ idx' = idx + 1
  /\ UNCHANGED <<args, pc, connections, dig_idx, dig_connections, dig_excluded, dig_repeated,
                 new_peers, pool0, pool_alt, found_count, removed_count, replaced_count,
                 new_peer, popped, log, last_call, report, summary, exit_status>>

\* lines 147-151: a matched connection in a dry run
DryRunConn ==
  /\ pc = "loop"
  /\ idx <= Len(connections)
  /\ IsRemoveTarget(connections[idx])
  /\ TakesDryRunBranch
  /\ found_count' = found_count + 1
  /\ IF WantsReplacement(new_peers)
     THEN /\ popped' = Append(popped, Head(new_peers))
          /\ new_peers' = PopFront(new_peers)
          /\ report' = "would_replace"
     ELSE /\ report' = "would_remove"
          /\ UNCHANGED <<popped, new_peers>>
  /\ idx' = idx + 1
  /\ UNCHANGED <<args, pc, connections, dig_idx, dig_connections, dig_excluded, dig_repeated,
                 pool0, pool_alt, removed_count, replaced_count, new_peer, log, last_call,
                 summary, exit_status>>

\* lines 153-159 and 171-174: remove a matched connection, pop the first candidate
RemoveConn ==
  /\ pc = "loop"
  /\ idx <= Len(connections)
  /\ IsRemoveTarget(connections[idx])
  /\ ~TakesDryRunBranch
  /\ found_count' = found_count + 1
  /\ \E rc \in ExitCodes, out \in Stdouts :
       LET ok == remove_connection(rc, out) IN
       /\ log' = Append(log, Call("remove", "", connections[idx].node_id, EmptyLine, ok))
       /\ last_call' = Outcome("remove", rc, out)
       /\ IF ok
          THEN /\ removed_count' = removed_count + 1
               /\ IF WantsReplacement(new_peers)
                  THEN /\ new_peer' = Head(new_peers)
                       /\ popped' = Append(popped, Head(new_peers))
                       /\ new_peers' = PopFront(new_peers)
                       /\ pc' = "add"
                       /\ UNCHANGED <<idx, report>>
                  ELSE /\ report' = "no_replacement_peers"
                       /\ idx' = idx + 1
                       /\ UNCHANGED <<pc, new_peer, popped, new_peers>>
          ELSE /\ report' = "failed_remove"
               /\ idx' = idx + 1
               /\ UNCHANGED <<pc, removed_count, new_peer, popped, new_peers>>
  /\ UNCHANGED <<args, connections, dig_idx, dig_connections, dig_excluded, dig_repeated,
                 pool0, pool_alt, replaced_count, summary, exit_status>>

\* lines 160-170: one add_peer call, then the while test and what follows it
AddPeer ==
  /\ pc = "add"
  /\ \E rc \in ExitCodes, out \in Stdouts :
       LET success == add_peer(new_peer, rc, out) IN
       /\ IF is_valid_ip(new_peer)
          THEN /\ log' = Append(log, Call("add", "", "", new_peer, success))
               /\ last_call' = Outcome("add", rc, out)
          ELSE UNCHANGED <<log, last_call>>
       /\ IF ShouldRetry(new_peers, success)
          THEN /\ new_peer' = Head(new_peers)
               /\ popped' = Append(popped, Head(new_peers))
               /\ new_peers' = PopFront(new_peers)
               /\ UNCHANGED <<pc, idx, replaced_count, report>>
          ELSE /\ IF success
                  THEN replaced_count' = replaced_count + 1 /\ report' = "replaced"
                  ELSE replaced_count' = replaced_count /\ report' = "failed_replace"
               /\ idx' = idx + 1
               /\ pc' = "loop"
               /\ UNCHANGED <<new_peer, popped, new_peers>>
  /\ UNCHANGED <<args, connections, dig_idx, dig_connections, dig_excluded, dig_repeated,
                 pool0, pool_alt, found_count, removed_count, summary, exit_status>>

\* lines 176-184: the summary, then the process ends
Summary ==
  /\ pc = "loop"
  /\ idx > Len(connections)
  /\ summary' = summary_kind(found_count, dry_run)
  /\ pc' = "done"
  /\ exit_status' = 0
  /\ UNCHANGED <<args, connections, dig_idx, dig_connections, dig_excluded, dig_repeated,
                 new_peers, pool0, pool_alt, idx, found_count, removed_count,
                 replaced_count, new_peer, popped, log, last_call, report>>

Next ==
  \/ CheckCommands
  \/ ListPeers
  \/ DigIntroducer
  \/ SkipConn
  \/ DryRunConn
  \/ RemoveConn
  \/ AddPeer
  \/ Summary

Spec == Init /\ [][Next]_vars

\* the pass, with the candidate list of a second pass over the same inputs
TwoPassNext ==
  \/ CheckCommands
  \/ ListPeers
  \/ DigIntroducerTwice
  \/ SkipConn
  \/ DryRunConn
  \/ RemoveConn
  \/ AddPeer
  \/ Summary

TwoPassSpec == Init /\ [][TwoPassNext]_vars

\* get_peer_connections alone, on every output of the peer-list command
ListerInit ==
  /\ installed = Commands
  /\ dry_run = FALSE
  /\ replace = FALSE
  /\ remove_port = DefaultRemovePort
  /\ replace_port = DefaultReplacePort
  /\ pc = "listing"
  /\ connections = << >>
  /\ dig_idx = 1
  /\ dig_connections = {}
  /\ dig_excluded = FALSE
  /\ dig_repeated = FALSE
  /\ new_peers = << >>
  /\ pool0 = << >>
  /\ pool_alt = << >>
  /\ idx = 1
  /\ found_count = 0
  /\ removed_count = 0
  /\ replaced_count = 0
  /\ new_peer = EmptyLine
  /\ popped = << >>
  /\ log = << >>
  /\ \E rc \in ExitCodes, lines \in SeqsUpTo(TableLines, MaxLines) :
       last_call = Outcome("list", rc, lines)
  /\ report = "none"
  /\ summary = "none"
  /\ exit_status = -1

\* lines 18-39 on the output in last_call
ParseOutput ==
  /\ pc = "listing"
  /\ connections' = get_peer_connections(last_call.rc, last_call.out)
  /\ pc' = "listed"
  /\ UNCHANGED <<args, dig_idx, dig_connections, dig_excluded, dig_repeated,
                 new_peers, pool0, pool_alt, idx, found_count, removed_count,
                 replaced_count, new_peer, popped, log, last_call, report,
                 summary, exit_status>>

ListerSpec == ListerInit /\ [][ParseOutput]_vars

\* ------------------------------------------------------------------ claims

\* an add command was run / a remove command was run, at position i of log
IsAdd(i) == log[i].cmd = "add"
IsRemove(i) == log[i].cmd = "remove"
AddCalls == {i \in DOMAIN log : log[i].cmd = "add"}
RemoveCalls == {i \in DOMAIN log : IsRemove(i)}

\* snapshot connections among the first k with port == removePort
CountMatching(k) ==
  Cardinality({i \in 1..k : connections[i].port = remove_port})

\* connections the for loop has entered so far
Iterated == IF pc = "add" THEN idx ELSE idx - 1

NoDuplicates(q) == \A i, j \in DOMAIN q : i # j => q[i] # q[j]

ConnectedOn(a, port) ==
  \E i \in DOMAIN connections : connections[i].port = port /\ connections[i].ip = a

AfterDig == pc \in {"loop", "add", "done"}

\* C1: matchedCount is the number of iterated snapshot connections on
\* removePort (all of them at the summary), removedCount <= matchedCount and
\* replacedCount <= removedCount, in every reachable state.
C1_Counts ==
  /\ found_count = CountMatching(Iterated)
  /\ pc = "done" => found_count = CountMatching(Len(connections))
  /\ removed_count <= found_count
  /\ replaced_count <= removed_count

C1_Witness ==
  /\ pc = "done"
  /\ Len(connections) = 2
  /\ found_count = 1
  /\ removed_count = 1
  /\ replaced_count = 1

\* C2: in a dry run no remove and no add command is ever issued, removedCount
\* and replacedCount stay 0, and matchedCount at the summary is the number of
\* snapshot connections on removePort (a function of the snapshot alone).
C2_DryRunNoCommands ==
  dry_run =>
    /\ AddCalls = {} /\ RemoveCalls = {}
    /\ pc # "add"
    /\ removed_count = 0 /\ replaced_count = 0
    /\ pc = "done" => found_count = CountMatching(Len(connections))

C2_Witness ==
  /\ dry_run /\ replace
  /\ pc = "done"
  /\ found_count = 2
  /\ pool0 # << >>

\* C3 as stated: in a dry run the candidate pool stays the pool the
\* introducer query returned.
C3_DryRunNeverPops == (dry_run /\ AfterDig) => new_peers = pool0

\* C3 amended: in a dry run with replaceEnabled each matched connection pops
\* the front candidate while the pool is non-empty, so the pool is the
\* returned pool without its first min(matchedCount, size) candidates; with
\* replaceEnabled false the pool is the returned pool.
DryRunPops ==
  IF replace THEN (IF found_count < Len(pool0) THEN found_count ELSE Len(pool0)) ELSE 0

C3_DryRunPopsFront ==
  (dry_run /\ AfterDig) =>
    /\ new_peers = SubSeq(pool0, DryRunPops + 1, Len(pool0))
    /\ popped = SubSeq(pool0, 1, DryRunPops)

C3_Witness ==
  /\ dry_run /\ replace
  /\ found_count = 2
  /\ Len(pool0) = 3
  /\ Len(new_peers) = 1

\* C4 as stated: when one introducer fails to resolve, every introducer is
\* still queried and the eligible addresses the others resolved are in the
\* returned pool.
C4_FailureIsolated ==
  AfterDig =>
    /\ Cardinality({i \in DOMAIN log : log[i].cmd = "dig"}) = Len(INTRODUCERS)
    /\ dig_connections \subseteq Range(pool0)

\* C5: no address of the pool is the address of a snapshot connection on
\* replacePort, and no add command is issued for such an address.
C5_Exclusion ==
  /\ \A a \in Range(new_peers) \cup Range(pool0) \cup Range(popped) \cup dig_connections :
       ~ConnectedOn(a, replace_port)
  /\ \A i \in AddCalls : ~ConnectedOn(log[i].ip, replace_port)

C5_Witness ==
  /\ dig_excluded
  /\ pool0 # << >>
  /\ \E i \in AddCalls : log[i].ok

\* C6: the pool holds no duplicates, and an address that was popped is never
\* popped or passed to the add command again.
C6_ConsumedOnce ==
  /\ NoDuplicates(pool0)
  /\ NoDuplicates(new_peers)
  /\ NoDuplicates(popped)
  /\ Range(popped) \cap Range(new_peers) = {}
  /\ \A i, j \in AddCalls : i # j => log[i].ip # log[j].ip

C6_Witness ==
  /\ dig_repeated
  /\ pc = "done"
  /\ Len(popped) = 3
  /\ removed_count = 2
  /\ replaced_count = 2

\* C7: with replaceEnabled false no candidate is consumed and no add is
\* issued: the pool is the pool the introducer query returned and
\* replacedCount is 0, in dry-run and in live mode.
C7_NoReplaceNoConsume ==
  ~replace =>
    /\ new_peers = pool0
    /\ popped = << >>
    /\ AddCalls = {}
    /\ pc # "add"
    /\ replaced_count = 0

C7_Witness ==
  /\ ~replace /\ ~dry_run
  /\ pc = "done"
  /\ removed_count = 1
  /\ found_count = 2
  /\ pool0 # << >>

\* outputs of the remove command that hold "disconnected" in some letter case
DisconnectedOutputs == {<<"Peer", "Disconnected">>, <<"failed", "disconnected">>}

\* the step runs a remove command that fails
RemoveFails ==
  /\ Len(log') = Len(log) + 1
  /\ log'[Len(log')].cmd = "remove"
  /\ (last_call'.rc # 0 \/ last_call'.out \notin DisconnectedOutputs)

\* C8: a failed remove counts the connection as matched but not removed,
\* consumes no candidate, issues no add, and the loop moves to the next
\* connection; at the summary every snapshot connection has been iterated.
C8_RemoveFailure ==
  /\ [][RemoveFails =>
          /\ found_count' = found_count + 1
          /\ removed_count' = removed_count
          /\ replaced_count' = replaced_count
          /\ new_peers' = new_peers
          /\ popped' = popped
          /\ report' = "failed_remove"
          /\ pc' = "loop"
          /\ idx' = idx + 1]_vars
  /\ [](pc = "done" => idx = Len(connections) + 1)

C8_Witness ==
  /\ pc = "done"
  /\ replace
  /\ \E i, j \in RemoveCalls : i < j /\ ~log[i].ok /\ log[j].ok
  /\ found_count = 2
  /\ removed_count = 1
  /\ replaced_count = 1

\* the add_peer call of the step returned success
AddSucceeds == Len(log') = Len(log) + 1 /\ log'[Len(log')].ok

\* C9: after a successful removal with replaceEnabled the front candidate is
\* popped and added; a failed add pops and tries the next candidate while the
\* pool is non-empty; replacedCount grows by 1 exactly when an add succeeds;
\* a tried candidate is no longer in the pool; when the pool is empty after
\* a failed add the replacement is reported failed and the loop moves on.
C9_RetryUntilSuccess ==
  /\ [][(pc = "loop" /\ pc' = "add") =>
          /\ replace
          /\ removed_count' = removed_count + 1
          /\ new_peers # << >>
          /\ new_peer' = Head(new_peers)
          /\ new_peers' = Tail(new_peers)]_vars
  /\ [][pc = "add" =>
          /\ (~AddSucceeds /\ new_peers # << >>) =>
               /\ pc' = "add"
               /\ idx' = idx
               /\ new_peer' = Head(new_peers)
               /\ new_peers' = Tail(new_peers)
               /\ replaced_count' = replaced_count
          /\ AddSucceeds =>
               /\ pc' = "loop"
               /\ idx' = idx + 1
               /\ new_peers' = new_peers
               /\ replaced_count' = replaced_count + 1
               /\ report' = "replaced"
          /\ (~AddSucceeds /\ new_peers = << >>) =>
               /\ pc' = "loop"
               /\ idx' = idx + 1
               /\ new_peers' = new_peers
               /\ replaced_count' = replaced_count
               /\ report' = "failed_replace"
          /\ new_peer \notin Range(new_peers')]_vars
  /\ [][replaced_count' # replaced_count => (pc = "add" /\ AddSucceeds)]_vars

C9_Witness ==
  /\ pc = "done"
  /\ \E i, j \in AddCalls : i < j /\ ~log[i].ok /\ log[j].ok
  /\ replaced_count = 1
  /\ Len(popped) = 3
  /\ new_peers = << >>
  /\ report = "failed_replace"

\* C10: when a required command is missing the run aborts with a non-zero
\* status before any work: no external call is made, no summary is printed.
C10_MissingCommandAborts ==
  (\E cmd \in Commands : cmd \notin installed) =>
    /\ pc \in {"start", "aborted"}
    /\ pc = "aborted" => exit_status = 1
    /\ exit_status # 0
    /\ log = << >>
    /\ summary = "none"
    /\ connections = << >> /\ pool0 = << >>

C10_Witness ==
  /\ pc = "aborted"
  /\ installed = {"aba"}
  /\ exit_status = 1

\* every step of the pass is a blocking call that returns, or plain code
FairSpec == Spec /\ WF_vars(Next)

\* the peer-list command failed
ListFailed == log # << >> /\ log[1].cmd = "list" /\ ~log[1].ok

\* C11: when the peer-list command fails the snapshot is empty and the pass
\* goes on; with an empty snapshot, or one without a connection on
\* removePort, matchedCount is 0, no remove or add command is issued and the
\* summary reports that no connections were found.
C11_NothingToDo ==
  /\ ListFailed => (connections = << >> /\ pc \notin {"start", "list", "aborted"})
  /\ CountMatching(Len(connections)) = 0 =>
       /\ found_count = 0 /\ removed_count = 0 /\ replaced_count = 0
       /\ AddCalls = {} /\ RemoveCalls = {}
       /\ popped = << >>
       /\ pc = "done" => summary = "no_connections"
  /\ (pc = "done" /\ summary = "no_connections") => CountMatching(Len(connections)) = 0

C11_Witness ==
  /\ ListFailed
  /\ pc = "done"
  /\ summary = "no_connections"
  /\ replace /\ ~dry_run
  /\ pool0 # << >>

IsRemoveEntry(e) == e.cmd = "remove"
OnRemovePort(c) == c.port = remove_port

\* the remove commands run so far, and the first k snapshot connections that
\* are on removePort, both in order
RemoveLog == SelectSeq(log, IsRemoveEntry)
MatchedConns(k) == SelectSeq(SubSeq(connections, 1, k), OnRemovePort)

\* C13: in a live pass the remove commands issued are, in order and one each,
\* those of the iterated snapshot connections on removePort (all of them at
\* the summary), whatever the outcomes of earlier removes and adds and
\* whether candidates remain.
C13_RemoveOncePerMatch ==
  IF dry_run THEN RemoveLog = << >>
  ELSE /\ Len(RemoveLog) = Len(MatchedConns(Iterated))
       /\ \A n \in DOMAIN RemoveLog :
            RemoveLog[n].node_id = MatchedConns(Iterated)[n].node_id
       /\ pc = "done" => Len(RemoveLog) = CountMatching(Len(connections))

C13_Witness ==
  /\ ~dry_run /\ replace
  /\ pc = "done"
  /\ Len(RemoveLog) = 2
  /\ RemoveLog[1].node_id # RemoveLog[2].node_id
  /\ RemoveLog[1].ok
  /\ pool0 # << >>
  /\ replaced_count = 0

\* the latest remove before position i of log, 0 when there is none
LastRemoveBefore(i) ==
  IF \E j \in 1..(i - 1) : IsRemove(j)
  THEN CHOOSE j \in 1..(i - 1) : IsRemove(j) /\ \A k \in (j + 1)..(i - 1) : ~IsRemove(k)
  ELSE 0

LogInOrder ==
  \A i \in DOMAIN log :
    /\ log[i].cmd = "list" <=> i = 1
    /\ log[i].cmd = "dig" => \A j \in 1..(i - 1) : log[j].cmd \in {"list", "dig"}
    /\ IsAdd(i) => (LastRemoveBefore(i) # 0 /\ log[LastRemoveBefore(i)].ok)

\* C14: the list call is the first call, every introducer resolution comes
\* before the first remove, and an add is issued only after the remove of
\* the current matched connection exited zero with the marker, before the
\* remove of the next one.
C14_CallOrder ==
  /\ []LogInOrder
  /\ [][(pc = "loop" /\ pc' = "add") =>
          /\ last_call'.cmd = "remove"
          /\ last_call'.rc = 0
          /\ last_call'.out \in DisconnectedOutputs]_vars
  /\ [][(Len(log') > Len(log) /\ log'[Len(log')].cmd = "add") =>
          (pc = "add" /\ LastRemoveBefore(Len(log')) # 0)]_vars

C14_Witness ==
  /\ pc = "done"
  /\ Len(log) = 9
  /\ \A i \in 2..5 : log[i].cmd = "dig"
  /\ IsRemove(6) /\ IsAdd(7) /\ IsRemove(8) /\ IsAdd(9)
  /\ log[7].ok /\ ~log[9].ok

\* the candidate lines that are IP literals, and the outputs of the add
\* command that hold "failed" in some letter case
ValidLiterals == {IpA, IpB}
FailedOutputs == {<<"FAILED", "to", "connect">>, <<"failed", "disconnected">>}

\* the step appends a call of cmd to log
Issues(cmd) == Len(log') = Len(log) + 1 /\ log'[Len(log')].cmd = cmd

\* C15: add_peer on an address that is no IP literal fails without running
\* the add command; on an IP literal it runs the command once for that
\* address and succeeds iff the command exits zero and its output holds no
\* "failed" in any letter case.
C15_AddPeer ==
  [][pc = "add" =>
       IF new_peer \in ValidLiterals
       THEN /\ Issues("add")
            /\ log'[Len(log')].ip = new_peer
            /\ log'[Len(log')].ok <=>
                 (last_call'.rc = 0 /\ last_call'.out \notin FailedOutputs)
            /\ (replaced_count' = replaced_count + 1) <=>
                 (last_call'.rc = 0 /\ last_call'.out \notin FailedOutputs)
       ELSE /\ log' = log
            /\ last_call' = last_call
            /\ replaced_count' = replaced_count
            /\ pc' = "add" \/ report' = "failed_replace"]_vars

C15_Witness ==
  /\ IpBad \in Range(popped)
  /\ last_call.cmd = "add"
  /\ last_call.rc = 0
  /\ last_call.out = <<"ok">>
  /\ log[Len(log)].cmd = "add" /\ log[Len(log)].ok
  /\ \E i \in AddCalls : ~log[i].ok
  /\ report = "replaced"

\* C16: remove_connection succeeds iff the remove command exits zero and its
\* output holds "disconnected" in some letter case.
C16_RemoveConnection ==
  [][Issues("remove") =>
       /\ last_call'.cmd = "remove"
       /\ log'[Len(log')].ok <=>
            (last_call'.rc = 0 /\ last_call'.out \in DisconnectedOutputs)
       /\ removed_count' =
            IF last_call'.rc = 0 /\ last_call'.out \in DisconnectedOutputs
            THEN removed_count + 1 ELSE removed_count]_vars

C16_Witness ==
  /\ last_call.cmd = "remove"
  /\ last_call.rc = 1
  /\ last_call.out = <<"Peer", "Disconnected">>
  /\ report = "failed_remove"
  /\ removed_count = 1
  /\ found_count = 2

\* the table lines that have the shape FULL_NODE <ip> <port>/<port> <hex8>
WellFormedRows ==
  { Row("FULL_NODE", IpA, DefaultRemovePort, "ab12cd34"),
    Row("FULL_NODE", IpB, DefaultRemovePort, "0f0f0f0f"),
    Row("FULL_NODE", IpA, DefaultReplacePort, "12345678") }

\* positions, after the first two, of the lines listed that have the shape
KeptLines(lines) == {i \in 3..Len(lines) : lines[i] \in WellFormedRows}

\* C17: the connections returned by get_peer_connections are, in listing
\* order, exactly the lines that match the row schema and are not among the
\* first two lines; no other line yields a connection (none at all when the
\* command failed).
C17_ListerKeepsMatchingRows ==
  pc = "listed" =>
    LET lines == last_call.out
        kept == IF last_call.rc = 0 THEN KeptLines(lines) ELSE {}
        rank(i) == Cardinality({j \in kept : j <= i})
    IN /\ Len(connections) = Cardinality(kept)
       /\ \A i \in kept :
            /\ connections[rank(i)].node_id = lines[i].node_id
            /\ connections[rank(i)].ip = lines[i].ip
            /\ connections[rank(i)].port = lines[i].port

C17_Witness ==
  /\ pc = "listed"
  /\ last_call.rc = 0
  /\ Len(last_call.out) = 4
  /\ last_call.out[1] \in WellFormedRows
  /\ last_call.out[2] \in WellFormedRows
  /\ last_call.out[3].node_id = "XYZ"
  /\ last_call.out[4] \in WellFormedRows
  /\ Len(connections) = 1

\* C18 as stated: a second pass given the same snapshot, policy, introducer
\* results and call outcomes gets the candidates in the same order as the
\* first, and so pops the same addresses in the same order.
C18_SameOrder == AfterDig => pool_alt = pool0

\* add_peer calls that have returned: every pop but one still pending
AddPeerCalls == Len(popped) - (IF pc = "add" THEN 1 ELSE 0)
SuccessfulAdds == {i \in AddCalls : log[i].ok}

\* popped candidates, among the first k, that are IP literals
RECURSIVE LiteralsOf(_, _)
LiteralsOf(q, k) ==
  IF k = 0 THEN << >>
  ELSE IF q[k] \in ValidLiterals
       THEN Append(LiteralsOf(q, k - 1), q[k])
       ELSE LiteralsOf(q, k - 1)

IsAddEntry(e) == e.cmd = "add"
AddLog == SelectSeq(log, IsAddEntry)

\* C19: in a live pass the candidates remaining and the candidates handed
\* to add_peer (one of them possibly with its call pending) are together the
\* pool the introducer query returned, in order; the add commands run are
\* those of the IP literals among them; replacedCount is the number of adds
\* that succeeded; and between two successful adds there is a remove.
C19_PoolConserved ==
  (~dry_run /\ AfterDig) =>
    /\ popped \o new_peers = pool0
    /\ Len(new_peers) + AddPeerCalls + (IF pc = "add" THEN 1 ELSE 0) = Len(pool0)
    /\ pc = "add" => new_peer = popped[Len(popped)]
    /\ Len(AddLog) = Len(LiteralsOf(popped, AddPeerCalls))
    /\ \A n \in DOMAIN AddLog : AddLog[n].ip = LiteralsOf(popped, AddPeerCalls)[n]
    /\ replaced_count = Cardinality(SuccessfulAdds)
    /\ \A i, j \in SuccessfulAdds :
         i < j => \E k \in (i + 1)..(j - 1) : IsRemove(k)

C19_Witness ==
  /\ ~dry_run
  /\ pc = "add"
  /\ Len(pool0) = 3
  /\ Len(new_peers) = 1
  /\ removed_count = 2
  /\ replaced_count = 1

\* C12: every pass either aborts at the command check, which happens only
\* when a command is missing, or reaches the summary and ends with status 0
\* whatever calls fail, provided every call returns; each
\* turn of the retry loop shortens the pool or leaves the loop, so there are
\* at most as many add calls as candidates.
C12_PassEndsWithSummary ==
  /\ <>(pc = "aborted" \/ (pc = "done" /\ summary # "none" /\ exit_status = 0))
  /\ [][pc' = "aborted" => (pc = "start" /\ \E cmd \in Commands : cmd \notin installed)]_vars
  /\ [][pc = "add" => (pc' = "loop" \/ Len(new_peers') < Len(new_peers))]_vars
  /\ [][pc = "done" => pc' = "done"]_vars
  /\ [][Cardinality(AddCalls') <= Len(pool0') /\ Len(popped') <= Len(pool0')]_vars

C12_Witness ==
  /\ pc = "done"
  /\ exit_status = 0
  /\ summary = "live"
  /\ \E i \in RemoveCalls : ~log[i].ok
  /\ \E i \in AddCalls : ~log[i].ok
  /\ \E i \in DOMAIN log : log[i].cmd = "dig"

====
